---- MODULE Spec2Model ----
(***************************************************************************)
(* RoleFit analyzer (src/rolefit_analyzer_agent/agent.py): the two tools   *)
(* read_pdf and search_memory, the four LLM stages, the parallel loader    *)
(* group, the sequential root pipeline and main's session handling.        *)
(*                                                                         *)
(* Text (memory values, memory keys, queries) is a sequence of one-char    *)
(* strings, so that find, strip, lower and slicing are computed, not       *)
(* assumed.  Offsets are 0-based as in Python: character i of the source   *)
(* is element i+1 of the sequence.                                         *)
(***************************************************************************)
EXTENDS Integers, Sequences, FiniteSets, TLC

\* ------------------------------------------------------------------ bounds
MaxTextLen  == 4   \* longest memory text drawn in SearchInit
MaxQueryLen == 2   \* longest query drawn by DoSearch
MaxLlmCalls == 2   \* model requests one stage may make in one run
MaxRuns     == 2   \* invocations of main in one process
MaxDirectCalls == 2 \* read_pdf calls made from outside the pipeline

\* ------------------------------------------------------- program constants
\* agent.py:175-176
CV_MEMORY_KEY == <<"p","d","f","_","r","e","s","u","m","e","_","t","e","x","t">>
JD_MEMORY_KEY ==
  <<"j","o","b","_","d","e","s","c","r","i","p","t","i","o","n","_","t","e","x","t">>

\* agent.py:36, 110, 111: the tools' default arguments
DEFAULT_MAX_CHARS      == 120000
DEFAULT_MAX_SNIPPETS   == 5
DEFAULT_SNIPPET_RADIUS == 80

\* agent.py:70: the marker appended to truncated content, "\n...[TRUNCATED]"
TRUNCATED_MARKER ==
  <<"\n",".",".",".","[","T","R","U","N","C","A","T","E","D","]">>

\* ------------------------------------------------------------ Python text
Min(a, b) == IF a <= b THEN a ELSE b
Max(a, b) == IF a >= b THEN a ELSE b

\* str.isspace for the characters the model uses
IsSpace(c) == c \in {" ", "\n"}

\* text[s:e] with Python's clamping and negative indices
PySlice(text, s, e) ==
  LET n  == Len(text)
      s1 == IF s < 0 THEN Max(n + s, 0) ELSE Min(s, n)
      e1 == IF e < 0 THEN Max(n + e, 0) ELSE Min(e, n)
  IN  IF s1 >= e1 THEN <<>> ELSE SubSeq(text, s1 + 1, e1)

\* Strip that strips nothing
StripNothing(text) == text

\* str.strip(): drop leading and trailing whitespace
Strip(text) ==
  LET keep == {i \in 1..Len(text) : ~IsSpace(text[i])}
  IN  IF keep = {} THEN <<>>
      ELSE SubSeq(text,
                  CHOOSE i \in keep : \A j \in keep : i <= j,
                  CHOOSE i \in keep : \A j \in keep : i >= j)

\* str.find(q, start): lowest 0-based index >= start where q occurs, else -1
Find(text, q, start) ==
  LET hits == {i \in start..(Len(text) - Len(q)) :
                 \A j \in 1..Len(q) : text[i + j] = q[j]}
  IN  IF hits = {} THEN -1 ELSE CHOOSE i \in hits : \A k \in hits : i <= k

\* "needle in hay" on strings
Contains(hay, needle) == Find(hay, needle, 0) # -1

\* ------------------------------------------------------------- search_memory
\* ScanFrom with the scan resumed one character after the match's start
RECURSIVE ScanFromOverlap(_, _, _, _, _, _)
ScanFromOverlap(text, q, start, found_count, max_snippets, snippet_radius) ==
  LET idx == Find(text, q, start)
  IN  IF idx = -1 THEN <<>>
      ELSE LET s    == Max(0, idx - snippet_radius)
               e    == Min(Len(text), idx + Len(q) + snippet_radius)
               snip == [text |-> PySlice(text, s, e), start |-> idx,
                        end |-> idx + Len(q)]
           IN  IF found_count + 1 >= max_snippets THEN <<snip>>
               ELSE <<snip>> \o ScanFromOverlap(text, q, idx + 1, found_count + 1,
                                                max_snippets, snippet_radius)

\* agent.py:143-157: the scan of one text, from `start` with `found_count`
\* snippets already collected
RECURSIVE ScanFrom(_, _, _, _, _, _)
ScanFrom(text, q, start, found_count, max_snippets, snippet_radius) ==
  LET idx == Find(text, q, start)
  IN  IF idx = -1 THEN <<>>
      ELSE LET s    == Max(0, idx - snippet_radius)
               e    == Min(Len(text), idx + Len(q) + snippet_radius)
               snip == [text |-> PySlice(text, s, e), start |-> idx,
                        end |-> idx + Len(q)]
           IN  IF found_count + 1 >= max_snippets THEN <<snip>>
               ELSE <<snip>> \o ScanFrom(text, q, idx + Len(q), found_count + 1,
                                         max_snippets, snippet_radius)

\* tool_context.state.get(key, "")
StateGet(st, key) == IF key \in DOMAIN st THEN st[key] ELSE <<>>

\* agent.py:139-159: the loop over keys_to_search
RECURSIVE SearchKeys(_, _, _, _, _)
SearchKeys(st, keys, q, max_snippets, snippet_radius) ==
  IF keys = <<>> THEN <<>>
  ELSE LET key      == Head(keys)
           text     == StateGet(st, key)
           snippets == IF text = <<>> THEN <<>>
                       ELSE ScanFrom(text, q, 0, 0, max_snippets, snippet_radius)
           rest     == SearchKeys(st, Tail(keys), q, max_snippets, snippet_radius)
       IN  IF snippets = <<>> THEN rest
           ELSE <<[memory_key |-> key, snippets |-> snippets]>> \o rest

\* --------------------------------------------------------------- state keys
\* agent.py:197, 218, 256, 298: the stages' output_key
CV_LOADER_RESULT       == <<"c","v","_","l","o","a","d","e","r","_","r","e","s","u","l","t">>
JD_LOADER_RESULT       == <<"j","d","_","l","o","a","d","e","r","_","r","e","s","u","l","t">>
CV_SCREENING_RESULT    == <<"c","v","_","s","c","r","e","e","n","i","n","g","_","r","e","s","u","l","t">>
TALENT_MATCHING_RESULT == <<"t","a","l","e","n","t","_","m","a","t","c","h","i","n","g","_","r","e","s","u","l","t">>
\* agent.py:343-346: the keys of main's state_delta
FILE_PATH_CV == <<"f","i","l","e","_","p","a","t","h","_","c","v">>
FILE_PATH_JD == <<"f","i","l","e","_","p","a","t","h","_","j","d">>
\* other keys a caller of read_pdf may pass as memory_key
KEY_UPPER_CV == <<"C","V">>
KEY_JD_CV    == <<"j","d","_","c","v">>
KEY_NOTES    == <<"n","o","t","e","s">>
KEY_EMPTY    == <<>>

\* The keys in a fixed order.  The code walks a dict in insertion order; the
\* model lists the keys of the state in this order instead.
KeyOrder ==
  <<FILE_PATH_CV, FILE_PATH_JD, CV_MEMORY_KEY, JD_MEMORY_KEY, KEY_UPPER_CV,
    KEY_JD_CV, KEY_NOTES, KEY_EMPTY, CV_LOADER_RESULT, JD_LOADER_RESULT,
    CV_SCREENING_RESULT, TALENT_MATCHING_RESULT>>

\* agent.py:136: memory_keys or [k for k, v in state.items() if isinstance(v, str)]
\* (None and [] are both <<>>; every value of the model is a str)
KeysToSearch(st, memory_keys) ==
  IF memory_keys # <<>> THEN memory_keys
  ELSE SelectSeq(KeyOrder, LAMBDA k : k \in DOMAIN st)

\* agent.py:128-161
search_memory(query, memory_keys, max_snippets, snippet_radius, tool_context, st) ==
  IF ~tool_context
  THEN [status |-> "error", error_message |-> "Session context missing"]
  ELSE LET q == Strip(query)
       IN  IF q = <<>>
           THEN [status |-> "error", error_message |-> "Query string is empty"]
           ELSE [status  |-> "success",
                 query   |-> q,
                 matches |-> SearchKeys(st, KeysToSearch(st, memory_keys), q,
                                        max_snippets, snippet_radius)]

\* ------------------------------------------------------------------ read_pdf
\* A file of the file system: absent, unreadable (PdfReader or extract_text
\* raises), or a PDF whose pages carry the raw text extract_text() returns.
NoFile      == [exists |-> FALSE, readable |-> FALSE, pages |-> <<>>]
BrokenFile  == [exists |-> TRUE,  readable |-> FALSE, pages |-> <<>>]
Pdf(pages)  == [exists |-> TRUE,  readable |-> TRUE,  pages |-> pages]

\* agent.py:67: " ".join(text.split()) on a text that has no leading or
\* trailing whitespace: every run of whitespace becomes one blank
RECURSIVE Collapse(_)
Collapse(text) ==
  IF text = <<>> THEN <<>>
  ELSE IF IsSpace(Head(text))
       THEN IF Tail(text) # <<>> /\ IsSpace(Head(Tail(text)))
            THEN Collapse(Tail(text))
            ELSE <<" ">> \o Collapse(Tail(text))
       ELSE <<Head(text)>> \o Collapse(Tail(text))

\* agent.py:66-67: one page's chunk
CleanPage(text) == Collapse(Strip(text))

\* agent.py:69: "\n".join(chunks)
RECURSIVE JoinLines(_)
JoinLines(chunks) ==
  IF chunks = <<>> THEN <<>>
  ELSE IF Len(chunks) = 1 THEN Head(chunks)
       ELSE Head(chunks) \o <<"\n">> \o JoinLines(Tail(chunks))

\* agent.py:62-70: full_content, then truncated_content
FullContent(pages) ==
  Strip(JoinLines([i \in 1..Len(pages) |-> CleanPage(pages[i])]))

TruncatedContent(pages, max_chars) ==
  LET full_content == FullContent(pages)
  IN  IF Len(full_content) > max_chars
      THEN PySlice(full_content, 0, max_chars) \o TRUNCATED_MARKER
      ELSE full_content

\* str.lower() for the letters the model's keys use
LowerChar(c) ==
  CASE c = "A" -> "a" [] c = "C" -> "c" [] c = "V" -> "v" [] c = "J" -> "j"
    [] c = "D" -> "d" [] OTHER -> c

Lower(text) == [i \in 1..Len(text) |-> LowerChar(text[i])]

\* agent.py:84 and 86: the keywords that make a key a resume or a JD key
RESUME_WORDS == {<<"c","v">>, <<"r","e","s","u","m","e">>, <<"c","a","n","d","i","d","a","t","e">>}
JD_WORDS     == {<<"j","o","b">>, <<"j","d">>, <<"d","e","s","c","r","i","p","t","i","o","n">>}

\* agent.py:83-84
IsResumeKey(memory_key) ==
  \E k \in RESUME_WORDS : Contains(Lower(memory_key), k)

\* agent.py:83, 86
IsJobKey(memory_key) ==
  \E k \in JD_WORDS : Contains(Lower(memory_key), k)

\* tool_context.state[key] = value
Put(st, key, value) ==
  [x \in DOMAIN st \cup {key} |-> IF x = key THEN value ELSE st[x]]

\* SaveToState with the second `if` written as `elif`
SaveToStateElif(st, memory_key, truncated_content) ==
  LET st1 == Put(st, memory_key, truncated_content)
  IN  IF IsResumeKey(memory_key)
      THEN Put(st1, CV_MEMORY_KEY, truncated_content)
      ELSE IF IsJobKey(memory_key)
           THEN Put(st1, JD_MEMORY_KEY, truncated_content) ELSE st1

\* SaveToState with the two canonical keys taken for one another
SaveToStateSwapped(st, memory_key, truncated_content) ==
  LET st1 == Put(st, memory_key, truncated_content)
      st2 == IF IsResumeKey(memory_key)
             THEN Put(st1, JD_MEMORY_KEY, truncated_content) ELSE st1
  IN  IF IsJobKey(memory_key)
      THEN Put(st2, CV_MEMORY_KEY, truncated_content) ELSE st2

\* agent.py:79-87: the writes of a call that has a tool_context
SaveToState(st, memory_key, truncated_content) ==
  LET st1 == Put(st, memory_key, truncated_content)
      st2 == IF IsResumeKey(memory_key)
             THEN Put(st1, CV_MEMORY_KEY, truncated_content) ELSE st1
  IN  IF IsJobKey(memory_key)
      THEN Put(st2, JD_MEMORY_KEY, truncated_content) ELSE st2

\* read_pdf with the text saved before the extraction is known to have
\* succeeded: a file that cannot be read leaves an empty text in memory
read_pdf_SavesOnError(file_path, memory_key, max_chars, tool_context, fs, st) ==
  LET file == IF file_path \in DOMAIN fs THEN fs[file_path] ELSE NoFile
  IN  IF ~file.exists
      THEN [result |-> [status |-> "error", error_message |-> "File not found"],
            state  |-> st]
      ELSE IF ~file.readable
      THEN [result |-> [status |-> "error",
                        error_message |-> "Failed to read PDF"],
            state  |-> IF tool_context THEN SaveToState(st, memory_key, <<>>)
                       ELSE st]
      ELSE LET truncated_content == TruncatedContent(file.pages, max_chars)
           IN  IF tool_context
               THEN [result |-> [status |-> "success",
                                 extracted_length |-> Len(truncated_content)],
                     state  |-> SaveToState(st, memory_key, truncated_content)]
               ELSE [result |-> [status |-> "error",
                                 message |-> "Session context missing"],
                     state  |-> st]

\* agent.py:33-99: the result read_pdf returns and the state it leaves
read_pdf(file_path, memory_key, max_chars, tool_context, fs, st) ==
  LET file == IF file_path \in DOMAIN fs THEN fs[file_path] ELSE NoFile
  IN  IF ~file.exists
      THEN [result |-> [status |-> "error", error_message |-> "File not found"],
            state  |-> st]
      ELSE IF ~file.readable
      THEN [result |-> [status |-> "error",
                        error_message |-> "Failed to read PDF"],
            state  |-> st]
      ELSE LET truncated_content == TruncatedContent(file.pages, max_chars)
           IN  IF tool_context
               THEN [result |-> [status |-> "success",
                                 extracted_length |-> Len(truncated_content)],
                     state  |-> SaveToState(st, memory_key, truncated_content)]
               ELSE [result |-> [status |-> "error",
                                 message |-> "Session context missing"],
                     state  |-> st]

\* ------------------------------------------------------ stages and pipeline
\* agent.py:180-219
Loaders   == {"cv_loader_agent", "jd_loader_agent"}
\* agent.py:222-299
Reasoners == {"cv_screening_agent", "talent_matching_agent"}
Agents    == Loaders \cup Reasoners

\* agent.py:197, 218, 256, 298
OutputKey(a) ==
  CASE a = "cv_loader_agent"       -> CV_LOADER_RESULT
    [] a = "jd_loader_agent"       -> JD_LOADER_RESULT
    [] a = "cv_screening_agent"    -> CV_SCREENING_RESULT
    [] a = "talent_matching_agent" -> TALENT_MATCHING_RESULT

\* agent.py:187, 208: the memory_key each loader's instruction names
InstructedKey(a) ==
  IF a = "cv_loader_agent" THEN CV_MEMORY_KEY ELSE JD_MEMORY_KEY

\* agent.py:233, 285: the documents a reasoning stage needs in memory
RequiredKeys(a) ==
  IF a = "cv_screening_agent" THEN {CV_MEMORY_KEY}
  ELSE {CV_MEMORY_KEY, JD_MEMORY_KEY}

\* agent.py:331-332: the two document paths (shortened)
CV_PATH == <<"c","v",".","p","d","f">>
JD_PATH == <<"j","d",".","p","d","f">>

\* The final text of a stage is the model's free choice; the model keeps its
\* status tag, held as a text of one token.
INSUFFICIENT_DOCUMENT == <<"INSUFFICIENT_DOCUMENT">>
FinalTexts(a) ==
  IF a \in Loaders THEN {<<"stored">>}
  ELSE IF a = "cv_screening_agent" THEN {<<"SUCCESS">>, INSUFFICIENT_DOCUMENT}
  ELSE {<<"PROCEED_TO_INTERVIEW">>, <<"REJECT">>, INSUFFICIENT_DOCUMENT}

VARIABLES
  files,          \* the file system: path -> file
  sessionExists,  \* session_service holds the session "debug_session_id"
  state,          \* that session's state (the shared memory): key -> text
  created,        \* create_session calls made so far
  mainPc,         \* where the current invocation of main is
  runs,           \* invocations of main so far
  runLimit,       \* invocations of main this process will make
  toolCalls,      \* calls of the tools made from outside the pipeline
  agentPc,        \* per stage: "idle", "running", "done", "failed", "cancelled"
  llmCalls,       \* per stage: model requests made in this run
  reads,          \* per loader: its read_pdf calls of this run, in order
  wrote,          \* per stage: the state keys it wrote in this run
  memAtStart,     \* per stage: the state it started on
  memAtDone,      \* per stage: the state it completed on
  lastRead,       \* the latest read_pdf call: arguments, state before, result
  lastSearch      \* the latest search_memory call: arguments, state, result

vars == <<files, sessionExists, state, created, mainPc, runs, runLimit, toolCalls,
          agentPc,
          llmCalls, reads, wrote, memAtStart, memAtDone, lastRead, lastSearch>>

NoState == << >>

NoRead ==
  [called |-> FALSE, caller |-> "none", file_path |-> <<>>, memory_key |-> <<>>,
   max_chars |-> 0, tool_context |-> FALSE, pre |-> NoState,
   result |-> [status |-> "none"]]

NoSearch ==
  [called |-> FALSE, caller |-> "none", query |-> <<>>, memory_keys |-> <<>>,
   max_snippets |-> 0, snippet_radius |-> 0, tool_context |-> FALSE,
   pre |-> NoState, result |-> [status |-> "none"]]

\* the characters of queries, and the texts up to n characters over a set
Chars == {"a", "A", " "}
Texts(chars, n) == UNION {[1..k -> chars] : k \in 0..n}

\* the documents the pipeline runs on
CvPdf == Pdf(<< <<"a"," "," ","A">>, <<"a">> >>)
JdPdf == Pdf(<< <<" ","A","a">> >>)
FileSystem(cv, jd) == [p \in {CV_PATH, JD_PATH} |-> IF p = CV_PATH THEN cv ELSE jd]

StagesIdle == [a \in Agents |-> "idle"]

\* No invocation of main under way, no stage started, no tool called.
Quiet ==
  /\ created = 0
  /\ mainPc = "idle"
  /\ runs = 0
  /\ toolCalls = 0
  /\ agentPc = StagesIdle
  /\ llmCalls = [a \in Agents |-> 0]
  /\ reads = [a \in Loaders |-> <<>>]
  /\ wrote = [a \in Agents |-> {}]
  /\ memAtStart = [a \in Agents |-> NoState]
  /\ memAtDone = [a \in Agents |-> NoState]
  /\ lastRead = NoRead
  /\ lastSearch = NoSearch

\* agent.py:322: the process as it starts, its session service empty
Fresh ==
  /\ Quiet
  /\ sessionExists = FALSE
  /\ state = NoState

\* agent.py:371-372: the program invokes main once; the job description may be
\* missing at its path
Init ==
  /\ Fresh
  /\ files \in {FileSystem(CvPdf, jd) : jd \in {NoFile, JdPdf}}
  /\ runLimit = 1

\* EnsureSession without the `if not session` test
EnsureSessionAlways(exists, st) == [state |-> NoState, created |-> 1]

\* agent.py:349-355: get_session, and create_session when there is none.
\* A created session starts with an empty state.
EnsureSession(exists, st) ==
  IF exists THEN [state |-> st, created |-> 0]
  ELSE [state |-> NoState, created |-> 1]

\* agent.py:328-355: main up to the session it will run in.  asyncio.run
\* (agent.py:372) returns only when main has ended, so invocations of main in
\* one process follow one another.
MainEnsureSession ==
  /\ mainPc = "idle"
  /\ runs < runLimit
  /\ LET s == EnsureSession(sessionExists, state)
     IN  /\ state' = s.state
         /\ created' = created + s.created
  /\ sessionExists' = TRUE
  /\ runs' = runs + 1
  /\ mainPc' = "session_ready"
  /\ UNCHANGED <<files, runLimit, toolCalls, agentPc, llmCalls, reads, wrote, memAtStart,
                 memAtDone, lastRead, lastSearch>>

\* agent.py:343-346, 358-364 with 302-318: run_async applies state_delta and
\* starts root_agent, whose first child starts both loaders at once.
RunAsync ==
  /\ mainPc = "session_ready"
  /\ state' = Put(Put(state, FILE_PATH_CV, CV_PATH), FILE_PATH_JD, JD_PATH)
  /\ agentPc' = [a \in Agents |-> IF a \in Loaders THEN "running" ELSE "idle"]
  /\ llmCalls' = [a \in Agents |-> 0]
  /\ reads' = [a \in Loaders |-> <<>>]
  /\ wrote' = [a \in Agents |-> {}]
  /\ memAtStart' = [a \in Agents |-> IF a \in Loaders THEN state' ELSE NoState]
  /\ memAtDone' = [a \in Agents |-> NoState]
  /\ mainPc' = "running"
  /\ UNCHANGED <<files, runLimit, toolCalls, sessionExists, created, runs, lastRead, lastSearch>>

\* agent.py:84-87: the keys a successful read_pdf call assigns
WrittenKeys(memory_key) ==
  {memory_key}
    \cup (IF IsResumeKey(memory_key) THEN {CV_MEMORY_KEY} ELSE {})
    \cup (IF IsJobKey(memory_key) THEN {JD_MEMORY_KEY} ELSE {})

ReadRecord(caller, file_path, memory_key, max_chars, tool_context, r) ==
  [called |-> TRUE, caller |-> caller, file_path |-> file_path,
   memory_key |-> memory_key, max_chars |-> max_chars,
   tool_context |-> tool_context, pre |-> state, result |-> r.result]

SearchRecord(caller, query, memory_keys, max_snippets, snippet_radius, tool_context, result) ==
  [called |-> TRUE, caller |-> caller, query |-> query,
   memory_keys |-> memory_keys, max_snippets |-> max_snippets,
   snippet_radius |-> snippet_radius, tool_context |-> tool_context,
   pre |-> state, result |-> result]

\* the arguments the loaders' model may pass to read_pdf
LoaderKeys == {CV_MEMORY_KEY, JD_MEMORY_KEY}

\* agent.py:338: the path the prompt gives each loader
LoaderPath(a) == IF a = "cv_loader_agent" THEN CV_PATH ELSE JD_PATH

\* agent.py:180-219 with 33-99: a loader's model answers with a call of
\* pdf_reader_tool, which runs to its end on the event loop (read_pdf is a
\* plain function and never awaits).
LoaderReadPdf(a, memory_key) ==
  /\ mainPc = "running"
  /\ agentPc[a] = "running"
  /\ llmCalls[a] + 1 < MaxLlmCalls
  /\ LET r  == read_pdf(LoaderPath(a), memory_key, DEFAULT_MAX_CHARS, TRUE,
                        files, state)
         ok == r.result.status = "success"
     IN  /\ state' = r.state
         /\ reads' = [reads EXCEPT ![a] = Append(@,
                        [memory_key |-> memory_key,
                         status     |-> r.result.status,
                         content    |-> IF ok THEN r.state[memory_key] ELSE <<>>])]
         /\ wrote' = [wrote EXCEPT ![a] =
                        @ \cup (IF ok THEN WrittenKeys(memory_key) ELSE {})]
         /\ lastRead' = ReadRecord(a, LoaderPath(a), memory_key,
                                   DEFAULT_MAX_CHARS, TRUE, r)
  /\ llmCalls' = [llmCalls EXCEPT ![a] = @ + 1]
  /\ UNCHANGED <<files, runLimit, toolCalls, sessionExists, created, mainPc, runs, agentPc,
                 memAtStart, memAtDone, lastSearch>>

\* the arguments the reasoning stages' model may pass to search_memory
StageQueries  == {<<"a">>, <<" ">>}
StageKeyLists == {<<>>, <<CV_MEMORY_KEY, JD_MEMORY_KEY>>}

\* agent.py:222-299 with 107-161: a reasoning stage's model answers with a call
\* of search_memory_tool, its only tool
StageSearch(a, query, memory_keys) ==
  /\ mainPc = "running"
  /\ agentPc[a] = "running"
  /\ llmCalls[a] + 1 < MaxLlmCalls
  /\ lastSearch' = SearchRecord(a, query, memory_keys, DEFAULT_MAX_SNIPPETS,
                     DEFAULT_SNIPPET_RADIUS, TRUE,
                     search_memory(query, memory_keys, DEFAULT_MAX_SNIPPETS,
                                   DEFAULT_SNIPPET_RADIUS, TRUE, state))
  /\ llmCalls' = [llmCalls EXCEPT ![a] = @ + 1]
  /\ UNCHANGED <<files, runLimit, toolCalls, sessionExists, state, created, mainPc, runs, agentPc,
                 reads, wrote, memAtStart, memAtDone, lastRead>>

\* agent.py:180-299 (output_key): the stage's model answers with its final
\* text, which is stored under the stage's output_key; the stage is complete
StageFinal(a, text) ==
  /\ mainPc = "running"
  /\ agentPc[a] = "running"
  /\ llmCalls[a] < MaxLlmCalls
  /\ state' = Put(state, OutputKey(a), text)
  /\ agentPc' = [agentPc EXCEPT ![a] = "done"]
  /\ llmCalls' = [llmCalls EXCEPT ![a] = @ + 1]
  /\ wrote' = [wrote EXCEPT ![a] = @ \cup {OutputKey(a)}]
  /\ memAtDone' = [memAtDone EXCEPT ![a] = state']
  /\ UNCHANGED <<files, runLimit, toolCalls, sessionExists, created, mainPc, runs, reads, memAtStart,
                 lastRead, lastSearch>>

\* agent.py:18-23, 182: the stage's model request fails for good (a code that
\* is not retried, or the last of the attempts)
StageFatal(a) ==
  /\ mainPc = "running"
  /\ agentPc[a] = "running"
  /\ llmCalls[a] < MaxLlmCalls
  /\ agentPc' = [agentPc EXCEPT ![a] = "failed"]
  /\ llmCalls' = [llmCalls EXCEPT ![a] = @ + 1]
  /\ UNCHANGED <<files, runLimit, toolCalls, sessionExists, state, created, mainPc, runs, reads,
                 wrote, memAtStart, memAtDone, lastRead, lastSearch>>

\* agent.py:302-306: the parallel group is complete when all its children are
ParallelCompleted(pc) == \A a \in Loaders : pc[a] = "done"

\* ReadyToStart with the screening started as soon as one loader is complete
ReadyToStartEarly(a, pc) ==
  IF a = "cv_screening_agent" THEN \E l \in Loaders : pc[l] = "done"
  ELSE pc["cv_screening_agent"] = "done"

\* agent.py:309-318: what the sequential root waits for before it starts `a`
ReadyToStart(a, pc) ==
  IF a = "cv_screening_agent" THEN ParallelCompleted(pc)
  ELSE pc["cv_screening_agent"] = "done"

\* agent.py:313-317: the root starts its next child
StartStage(a) ==
  /\ mainPc = "running"
  /\ agentPc[a] = "idle"
  /\ ReadyToStart(a, agentPc)
  /\ agentPc' = [agentPc EXCEPT ![a] = "running"]
  /\ memAtStart' = [memAtStart EXCEPT ![a] = state]
  /\ UNCHANGED <<files, runLimit, toolCalls, sessionExists, state, created, mainPc, runs, llmCalls,
                 reads, wrote, memAtDone, lastRead, lastSearch>>

\* agent.py:358-369: the last child is complete, run_async ends, main returns
RunComplete ==
  /\ mainPc = "running"
  /\ agentPc["talent_matching_agent"] = "done"
  /\ mainPc' = "idle"
  /\ UNCHANGED <<files, runLimit, toolCalls, sessionExists, state, created, runs, agentPc, llmCalls,
                 reads, wrote, memAtStart, memAtDone, lastRead, lastSearch>>

\* agent.py:358-364: a stage's failure leaves run_async as an exception; what is
\* still running is cancelled and main ends
RunAbort ==
  /\ mainPc = "running"
  /\ \E a \in Agents : agentPc[a] = "failed"
  /\ agentPc' = [a \in Agents |->
                   IF agentPc[a] = "running" THEN "cancelled" ELSE agentPc[a]]
  /\ mainPc' = "idle"
  /\ UNCHANGED <<files, runLimit, toolCalls, sessionExists, state, created, runs, llmCalls, reads,
                 wrote, memAtStart, memAtDone, lastRead, lastSearch>>

Next ==
  \/ MainEnsureSession
  \/ RunAsync
  \/ \E a \in Loaders, k \in LoaderKeys : LoaderReadPdf(a, k)
  \/ \E a \in Reasoners, q \in StageQueries, ks \in StageKeyLists :
       StageSearch(a, q, ks)
  \/ \E a \in Agents : \E t \in FinalTexts(a) : StageFinal(a, t)
  \/ \E a \in Agents : StageFatal(a)
  \/ \E a \in Reasoners : StartStage(a)
  \/ RunComplete
  \/ RunAbort

Spec == Init /\ [][Next]_vars

\* ------------------------------------------- main invoked more than once
\* Several invocations of main in one process, one after the other; the
\* stages' models answer without calling a tool.
MainInit ==
  /\ Fresh
  /\ files = FileSystem(CvPdf, JdPdf)
  /\ runLimit = MaxRuns

MainNext ==
  \/ MainEnsureSession
  \/ RunAsync
  \/ \E a \in Agents : \E t \in FinalTexts(a) : StageFinal(a, t)
  \/ \E a \in Agents : StageFatal(a)
  \/ \E a \in Reasoners : StartStage(a)
  \/ RunComplete
  \/ RunAbort

MainSpec == MainInit /\ [][MainNext]_vars

\* ------------------------------------------------ search_memory on its own
\* The memory search_memory is applied to: any resume text of letters up to
\* MaxTextLen characters, beside a fixed job description.
SearchMemory(t) ==
  Put(Put(NoState, CV_MEMORY_KEY, t), JD_MEMORY_KEY, <<"a", " ", "A", "a">>)

SearchInit ==
  /\ Quiet
  /\ files = FileSystem(CvPdf, JdPdf)
  /\ runLimit = 0
  /\ sessionExists = TRUE
  /\ state \in {SearchMemory(t) : t \in Texts({"a", "A"}, MaxTextLen)}

\* the arguments of the calls
SearchKeyLists == {<<>>, <<CV_MEMORY_KEY, CV_MEMORY_KEY>>,
                   <<JD_MEMORY_KEY, KEY_NOTES, CV_MEMORY_KEY>>}
SearchMaxSnippets == {0, 1, 2, DEFAULT_MAX_SNIPPETS}
SearchRadii == {-2, 0, 1}

\* agent.py:107-161: a call of search_memory with a tool_context.  The call
\* leaves the memory as it is, so one call per behaviour covers them all.
DoSearch(query, memory_keys, max_snippets, snippet_radius) ==
  /\ ~lastSearch.called
  /\ lastSearch' = SearchRecord("direct", query, memory_keys, max_snippets,
                     snippet_radius, TRUE,
                     search_memory(query, memory_keys, max_snippets,
                                   snippet_radius, TRUE, state))
  /\ UNCHANGED <<files, runLimit, toolCalls, sessionExists, state, created, mainPc,
                 runs, agentPc, llmCalls, reads, wrote, memAtStart, memAtDone,
                 lastRead>>

\* agent.py:107-129: a call of search_memory without a tool_context
DoSearchNoContext(query, memory_keys) ==
  /\ ~lastSearch.called
  /\ lastSearch' = SearchRecord("direct", query, memory_keys,
                     DEFAULT_MAX_SNIPPETS, DEFAULT_SNIPPET_RADIUS, FALSE,
                     search_memory(query, memory_keys, DEFAULT_MAX_SNIPPETS,
                                   DEFAULT_SNIPPET_RADIUS, FALSE, state))
  /\ UNCHANGED <<files, runLimit, toolCalls, sessionExists, state, created, mainPc,
                 runs, agentPc, llmCalls, reads, wrote, memAtStart, memAtDone,
                 lastRead>>

SearchNext ==
  \/ \E q \in Texts(Chars, MaxQueryLen), ks \in SearchKeyLists,
        m \in SearchMaxSnippets, r \in SearchRadii : DoSearch(q, ks, m, r)
  \/ \E q \in Texts(Chars, MaxQueryLen), ks \in SearchKeyLists : DoSearchNoContext(q, ks)

SearchSpec == SearchInit /\ [][SearchNext]_vars

\* ------------------------------------------------------ read_pdf on its own
\* the memory read_pdf is applied to: empty, or holding both documents
ReadMemory ==
  {NoState,
   Put(Put(NoState, CV_MEMORY_KEY, <<"A">>), JD_MEMORY_KEY, <<"a", "A", "a">>)}

ReadInit ==
  /\ Quiet
  /\ files \in {FileSystem(CvPdf, NoFile), FileSystem(CvPdf, BrokenFile),
                FileSystem(Pdf(<< <<" ">>, <<>> >>), JdPdf)}
  /\ runLimit = 0
  /\ sessionExists = TRUE
  /\ state \in ReadMemory

\* the arguments of the calls
ReadKeys == {CV_MEMORY_KEY, JD_MEMORY_KEY, KEY_UPPER_CV, KEY_JD_CV, KEY_NOTES,
             KEY_EMPTY}
ReadMaxChars == {-1, 2, DEFAULT_MAX_CHARS}

\* agent.py:33-99: a call of read_pdf
DoReadPdf(file_path, memory_key, max_chars, tool_context) ==
  /\ toolCalls < MaxDirectCalls
  /\ LET r == read_pdf(file_path, memory_key, max_chars, tool_context, files, state)
     IN  /\ state' = r.state
         /\ lastRead' = ReadRecord("direct", file_path, memory_key, max_chars,
                                   tool_context, r)
  /\ toolCalls' = toolCalls + 1
  /\ UNCHANGED <<files, runLimit, sessionExists, created, mainPc, runs, agentPc,
                 llmCalls, reads, wrote, memAtStart, memAtDone, lastSearch>>

ReadNext ==
  \/ \E p \in {CV_PATH, JD_PATH}, k \in ReadKeys, m \in ReadMaxChars :
       DoReadPdf(p, k, m, TRUE)
  \/ \E p \in {CV_PATH, JD_PATH} : DoReadPdf(p, CV_MEMORY_KEY, DEFAULT_MAX_CHARS, FALSE)

ReadSpec == ReadInit /\ [][ReadNext]_vars

\* ======================================================================
\* Claims
\* ======================================================================
SearchSucceeded == lastSearch.called /\ lastSearch.result.status = "success"

\* the text a match entry of the latest search was found in
SearchedText(entry) == StateGet(lastSearch.pre, entry.memory_key)

RECURSIVE GreedyStarts(_, _, _)
GreedyStarts(text, q, from) ==
  IF \E i \in from..(Len(text) - Len(q)) : SubSeq(text, i + 1, i + Len(q)) = q
  THEN LET first == CHOOSE i \in from..(Len(text) - Len(q)) :
                      /\ SubSeq(text, i + 1, i + Len(q)) = q
                      /\ \A k \in from..(i - 1) :
                           SubSeq(text, k + 1, k + Len(q)) # q
       IN  <<first>> \o GreedyStarts(text, q, first + Len(q))
  ELSE <<>>

\* C6: for every integer max_snippets, search_memory returns at most
\* max_snippets matches per memory key, and they are the first matches of a
\* left-to-right case-sensitive scan that resumes at the end of each match.
C6_AtMostMaxSnippets ==
  SearchSucceeded =>
    \A m \in 1..Len(lastSearch.result.matches) :
      LET entry  == lastSearch.result.matches[m]
          sn     == entry.snippets
          greedy == GreedyStarts(SearchedText(entry), lastSearch.result.query, 0)
      IN  /\ Len(sn) <= lastSearch.max_snippets
          /\ Len(sn) <= Len(greedy)
          /\ \A i \in 1..Len(sn) :
               /\ sn[i].start = greedy[i]
               /\ sn[i].end = greedy[i] + Len(lastSearch.result.query)

\* `query` is empty or holds whitespace only
Blank(query) == \A i \in 1..Len(query) : query[i] \in {" ", "\n"}

\* C7: search_memory returns an error result that carries no matches when the
\* query is empty or whitespace-only and when it is called without a memory
\* context, and the memory is left as it was.
C7_ErrorsCarryNoMatches ==
  (lastSearch.called /\ (Blank(lastSearch.query) \/ ~lastSearch.tool_context)) =>
    /\ lastSearch.result.status = "error"
    /\ "matches" \notin DOMAIN lastSearch.result
    /\ state = lastSearch.pre

\* a call with a context and a query of blanks that occurs in the memory
C7_Witness ==
  /\ lastSearch.called
  /\ lastSearch.tool_context
  /\ lastSearch.query = <<" ">>
  /\ Contains(state[JD_MEMORY_KEY], lastSearch.query)
  /\ lastSearch.result.status = "error"

\* the characters of text at the 0-based offsets lo .. hi-1
Window(text, lo, hi) ==
  IF hi <= lo THEN <<>> ELSE [i \in 1..(hi - lo) |-> text[lo + i]]

\* C8: every snippet text is exactly the characters of the key's value in
\* [max(0, start - snippet_radius), min(len(value), end + snippet_radius)).
C8_SnippetIsWindow ==
  SearchSucceeded =>
    \A m \in 1..Len(lastSearch.result.matches) :
      LET entry == lastSearch.result.matches[m]
          text  == SearchedText(entry)
          sn    == entry.snippets
      IN  \A i \in 1..Len(sn) :
            sn[i].text = Window(text,
                                Max(0, sn[i].start - lastSearch.snippet_radius),
                                Min(Len(text), sn[i].end + lastSearch.snippet_radius))

\* `word` occurs in `key` when letter case is ignored
HasWord(key, word) ==
  \E i \in 0..(Len(key) - Len(word)) :
    \A j \in 1..Len(word) : LowerChar(key[i + j]) = word[j]

DenotesResume(key) ==
  HasWord(key, <<"c","v">>) \/ HasWord(key, <<"r","e","s","u","m","e">>) \/ HasWord(key, <<"c","a","n","d","i","d","a","t","e">>)

DenotesJob(key) ==
  HasWord(key, <<"j","o","b">>) \/ HasWord(key, <<"j","d">>) \/ HasWord(key, <<"d","e","s","c","r","i","p","t","i","o","n">>)

ReadSucceeded == lastRead.called /\ lastRead.result.status = "success"

\* the text the latest read_pdf call extracted
ExtractedByLastRead ==
  TruncatedContent(files[lastRead.file_path].pages, lastRead.max_chars)

\* C5: after a successful read_pdf call whose memory_key denotes a resume, the
\* key pdf_resume_text holds the value just stored under memory_key; after one
\* whose memory_key denotes a job description, job_description_text holds it.
C5_AliasWrite ==
  ReadSucceeded =>
    /\ lastRead.memory_key \in DOMAIN state
    /\ state[lastRead.memory_key] = ExtractedByLastRead
    /\ DenotesResume(lastRead.memory_key) =>
         /\ CV_MEMORY_KEY \in DOMAIN state
         /\ state[CV_MEMORY_KEY] = state[lastRead.memory_key]
    /\ DenotesJob(lastRead.memory_key) =>
         /\ JD_MEMORY_KEY \in DOMAIN state
         /\ state[JD_MEMORY_KEY] = state[lastRead.memory_key]

\* a successful call under the key "jd_cv", which denotes both documents, on a
\* memory whose canonical keys held other text
C5_Witness ==
  /\ ReadSucceeded
  /\ lastRead.memory_key = KEY_JD_CV
  /\ CV_MEMORY_KEY \in DOMAIN lastRead.pre
  /\ lastRead.pre[CV_MEMORY_KEY] # state[CV_MEMORY_KEY]
  /\ lastRead.pre[JD_MEMORY_KEY] # state[JD_MEMORY_KEY]

\* the text of the document at a loader's path
OwnText(a) == TruncatedContent(files[LoaderPath(a)].pages, DEFAULT_MAX_CHARS)

\* every read_pdf call of loader `a` succeeded under the key its instruction
\* names, and there was one
ReadAsInstructed(a) ==
  /\ reads[a] # <<>>
  /\ \A i \in 1..Len(reads[a]) :
       /\ reads[a][i].memory_key = InstructedKey(a)
       /\ reads[a][i].status = "success"

\* C3: when both loaders of the parallel group read their documents with
\* success under their instructed keys, then once the group is complete both
\* keys are present and each holds the text of its own loader, whatever the
\* order of the two loaders' writes.
C3_ParallelWritesKept ==
  ((\A a \in Loaders : agentPc[a] = "done" /\ ReadAsInstructed(a))) =>
    /\ CV_MEMORY_KEY \in DOMAIN state
    /\ JD_MEMORY_KEY \in DOMAIN state
    /\ state[CV_MEMORY_KEY] = OwnText("cv_loader_agent")
    /\ state[JD_MEMORY_KEY] = OwnText("jd_loader_agent")
    /\ \A a \in Loaders : state[InstructedKey(a)] = reads[a][Len(reads[a])].content

\* the group is complete after the resume loader wrote last and finished first
C3_Witness ==
  /\ \A a \in Loaders : agentPc[a] = "done" /\ ReadAsInstructed(a)
  /\ lastRead.caller = "cv_loader_agent"
  /\ OutputKey("cv_loader_agent") \in DOMAIN memAtDone["cv_loader_agent"]
  /\ OutputKey("jd_loader_agent") \notin DOMAIN memAtDone["cv_loader_agent"]
  /\ OwnText("cv_loader_agent") # OwnText("jd_loader_agent")

Started(a) == agentPc[a] # "idle"

\* C4: the screening never starts before both loaders are complete and the
\* matching never before the screening is complete; what the completed stages
\* wrote is in the memory a later stage starts on and searches.
C4_SequentialOrder ==
  /\ Started("cv_screening_agent") =>
       /\ \A l \in Loaders : agentPc[l] = "done"
       /\ \E l \in Loaders : memAtStart["cv_screening_agent"] = memAtDone[l]
       /\ \A l \in Loaders : \A k \in wrote[l] :
            k \in DOMAIN memAtStart["cv_screening_agent"]
  /\ Started("talent_matching_agent") =>
       /\ agentPc["cv_screening_agent"] = "done"
       /\ memAtStart["talent_matching_agent"] = memAtDone["cv_screening_agent"]
       /\ \A a \in Agents \ {"talent_matching_agent"} : \A k \in wrote[a] :
            k \in DOMAIN memAtStart["talent_matching_agent"]
  /\ \A a \in Reasoners :
       (lastSearch.called /\ lastSearch.caller = a) =>
          lastSearch.pre = memAtStart[a]

\* the matching searched a memory that holds both loaders' documents and the
\* screening's result
C4_Witness ==
  /\ lastSearch.called
  /\ lastSearch.caller = "talent_matching_agent"
  /\ \A a \in Loaders : ReadAsInstructed(a)
  /\ {CV_MEMORY_KEY, JD_MEMORY_KEY, CV_SCREENING_RESULT} \subseteq DOMAIN lastSearch.pre
  /\ Len(lastSearch.result.matches) >= 2

\* a document the stage needs was absent or empty when the stage started
MissingInput(a) == \E k \in RequiredKeys(a) : StateGet(memAtStart[a], k) = <<>>

\* C2: a reasoning stage started while a document it needs is absent or empty
\* ends with the status INSUFFICIENT_DOCUMENT, has made no request to the
\* external model and has written nothing but its own result.
C2_ShortCircuit ==
  \A a \in Reasoners :
    (agentPc[a] = "done" /\ MissingInput(a)) =>
      /\ state[OutputKey(a)] = INSUFFICIENT_DOCUMENT
      /\ llmCalls[a] = 0
      /\ wrote[a] \subseteq {OutputKey(a)}

\* C10: every invocation of main after the first finds the session and reuses
\* it: no second session is created and the memory the invocation starts on is
\* the memory the invocations before it left.
C10_SessionReused ==
  [][/\ created' <= 1
     /\ (mainPc = "idle" /\ mainPc' = "session_ready" /\ sessionExists) =>
          /\ created' = created
          /\ state' = state
     /\ sessionExists => sessionExists']_vars

\* a second invocation starts on the memory a completed first one left
C10_Witness ==
  /\ runs = 2
  /\ mainPc = "session_ready"
  /\ created = 1
  /\ TALENT_MATCHING_RESULT \in DOMAIN state

\* the keys whose presence or value differs between two memories
ChangedKeys(before, after) ==
  {k \in DOMAIN before \cup DOMAIN after :
     \/ k \notin DOMAIN before
     \/ k \notin DOMAIN after
     \/ before[k] # after[k]}

\* C11: a read_pdf call that returns status "error" (file not found, failed
\* extraction, no session context) leaves the memory as it was; a call that
\* returns "success" changes no key other than memory_key, pdf_resume_text and
\* job_description_text.
C11_ReadPdfFrame ==
  lastRead.called =>
    /\ lastRead.result.status \in {"error", "success"}
    /\ lastRead.result.status = "error" => state = lastRead.pre
    /\ lastRead.result.status = "success" =>
         ChangedKeys(lastRead.pre, state)
           \subseteq {lastRead.memory_key, CV_MEMORY_KEY, JD_MEMORY_KEY}

\* a call with a session context on a file that exists but cannot be read,
\* made on a memory that already holds the canonical keys and another key
C11_Witness ==
  /\ lastRead.called
  /\ lastRead.result.status = "error"
  /\ lastRead.tool_context
  /\ files[lastRead.file_path] = BrokenFile
  /\ {CV_MEMORY_KEY, JD_MEMORY_KEY, KEY_NOTES} \subseteq DOMAIN lastRead.pre
====
